---- MODULE Spec2Model ----
(***************************************************************************)
(* Model of scripts/compress_prompt.py: extraction of fenced code blocks,  *)
(* the external compression call, reinsertion of the blocks and the        *)
(* orchestration in compress_prompt / main.                                *)
(*                                                                         *)
(* A text is a sequence of characters, each written as a string, so the    *)
(* regular expressions of the script are modelled character by character.  *)
(***************************************************************************)
EXTENDS Integers, Sequences, FiniteSets, TLC

\* ------------------------------------------------------------------ bounds
\* Largest number of segments (prose lines / fenced blocks) of a document
\* sent through the whole pipeline.
MaxSegs == 2
\* Largest number of segments of a document handed to the extractor alone.
MaxFenceSegs == 3
\* Largest number of placeholder occurrences the engine alters in one pass.
MaxEdits == 2

\* -------------------------------------------------------------- characters
NL == "\n"
BS == "\\"
\* the grave accent (backtick) character, named because the lexer rejects it
BT == "BACKTICK"
SP == " "

Lower == {"a","b","c","d","e","f","g","h","i","j","k","l","m",
          "n","o","p","q","r","s","t","u","v","w","x","y","z"}

Fence == <<BT, BT, BT>>
Word == <<"C","O","D","E","B","L","O","C","K">>
Marker == <<"[">> \o Word \o <<"]">>
\* the replacement string returned by replace_code_block
Placeholder == <<SP>> \o Marker \o <<SP>>

\* the four patterns tried by reinsert_code_blocks, in the order of the list
Patterns == <<  Marker,
                <<"[", SP>> \o Word \o <<SP, "]">>,
                Word,
                <<"[", SP, "C","O","D","E", SP, "B","L","O","C","K", SP, "]">> >>

\* ------------------------------------------------------- literal searching
StartsWith(t, i, p) ==
    /\ i >= 1
    /\ i + Len(p) - 1 <= Len(t)
    /\ \A k \in 1..Len(p) : t[i + k - 1] = p[k]

\* re.search for a literal pattern: index of the leftmost match, 0 if none
Search(p, t) ==
    LET hits == {i \in 1..Len(t) : StartsWith(t, i, p)}
    IN  IF hits = {} THEN 0 ELSE CHOOSE i \in hits : \A j \in hits : i <= j

Contains(t, p) == Search(p, t) > 0

\* ------------------------------------------------- extract_code_blocks
\* '^' under re.MULTILINE
AtLineStart(t, i) == i = 1 \/ (i > 1 /\ i - 1 <= Len(t) /\ t[i - 1] = NL)

\* ' *' : first index at or after i that does not hold a space
RECURSIVE SkipSpaces(_, _)
SkipSpaces(t, i) ==
    IF i <= Len(t) /\ t[i] = SP THEN SkipSpaces(t, i + 1) ELSE i

\* '[a-z ]*' : first index at or after i that holds neither a-z nor a space
RECURSIVE SkipTag(_, _)
SkipTag(t, i) ==
    IF i <= Len(t) /\ t[i] \in Lower \cup {SP} THEN SkipTag(t, i + 1) ELSE i

\* '\n( *FENCE)' at index q: index just after the closing fence, 0 if no match
CloseEnd(t, q) ==
    IF q <= Len(t) /\ t[q] = NL /\ StartsWith(t, SkipSpaces(t, q + 1), Fence)
    THEN SkipSpaces(t, q + 1) + 3
    ELSE 0

\* '(?!^FENCE).' at index p (re.DOTALL: any character)
BodyChar(t, p) == p <= Len(t) /\ ~(AtLineStart(t, p) /\ StartsWith(t, p, Fence))

\* '((?:(?!^FENCE).)*?)\n( *FENCE)' with the body ending before index q (lazy)
RECURSIVE BodyScan(_, _)
BodyScan(t, q) ==
    IF q > Len(t) THEN 0
    ELSE IF CloseEnd(t, q) > 0 THEN CloseEnd(t, q)
    ELSE IF BodyChar(t, q) THEN BodyScan(t, q + 1)
    ELSE 0

\* the whole pattern anchored at index i: index just after the match, 0 if none
MatchEnd(t, i) ==
    IF ~AtLineStart(t, i) THEN 0
    ELSE LET j == SkipSpaces(t, i)
         IN  IF ~StartsWith(t, j, Fence) THEN 0
             ELSE LET k == SkipTag(t, j + 3)
                  IN  IF k <= Len(t) /\ t[k] = NL THEN BodyScan(t, k + 1) ELSE 0

\* re.sub(pattern, replace_code_block, text) scanning from index i
RECURSIVE ExtractFrom(_, _)
ExtractFrom(t, i) ==
    IF i > Len(t) THEN [text |-> <<>>, blocks |-> <<>>]
    ELSE LET e == MatchEnd(t, i)
         IN  IF e > 0
             THEN LET r == ExtractFrom(t, e)
                  IN  [text |-> Placeholder \o r.text,
                       blocks |-> <<SubSeq(t, i, e - 1)>> \o r.blocks]
             ELSE LET r == ExtractFrom(t, i + 1)
                  IN  [text |-> <<t[i]>> \o r.text, blocks |-> r.blocks]

extract_code_blocks(t) == ExtractFrom(t, 1)

\* ------------------------------------------------ reinsert_code_blocks
\* the code block used as the replacement template as it is
EscapeNone(b) == b

\* code_block.replace('\\', r'\\'): every backslash is doubled
RECURSIVE Escape(_)
Escape(b) ==
    IF b = <<>> THEN <<>>
    ELSE IF Head(b) = BS THEN <<BS, BS>> \o Escape(Tail(b))
    ELSE <<Head(b)>> \o Escape(Tail(b))

\* the replacement template of re.sub: a doubled backslash stands for one
\* backslash, backslash-n for a newline, any other character for itself
RECURSIVE Expand(_)
Expand(r) ==
    IF r = <<>> THEN <<>>
    ELSE IF Head(r) = BS /\ Len(r) >= 2 /\ r[2] = BS
         THEN <<BS>> \o Expand(SubSeq(r, 3, Len(r)))
    ELSE IF Head(r) = BS /\ Len(r) >= 2 /\ r[2] = "n"
         THEN <<NL>> \o Expand(SubSeq(r, 3, Len(r)))
    ELSE <<Head(r)>> \o Expand(Tail(r))

\* the pattern the inner loop stops at: the first of the list that
\* re.search finds anywhere in the text, 0 if none is found
FirstPattern(t) ==
    LET found == {k \in 1..Len(Patterns) : Search(Patterns[k], t) > 0}
    IN  IF found = {} THEN 0 ELSE CHOOSE k \in found : \A j \in found : k <= j

\* index at which the next code block will be substituted, 0 if nowhere
NextMatch(t) ==
    IF FirstPattern(t) = 0 THEN 0 ELSE Search(Patterns[FirstPattern(t)], t)

\* one iteration of the outer loop for code_block
ReinsertOne(t, code_block) ==
    LET k == FirstPattern(t)
    IN  IF k = 0
        THEN [result |-> t \o <<NL, NL>> \o code_block,
              replaced |-> FALSE, stop |-> 0]
        ELSE LET pos == Search(Patterns[k], t)
                 new == Expand(Escape(code_block))
             IN  [result |-> SubSeq(t, 1, pos - 1) \o new
                             \o SubSeq(t, pos + Len(Patterns[k]), Len(t)),
                  replaced |-> TRUE, stop |-> pos + Len(new)]

\* ------------------------------------------------ the compression engine
\* The engine is external.  Its effect on a text is modelled by what it does
\* to each occurrence of the marker: it leaves it, rewrites it in one of the
\* corrupted shapes the reinserter looks for, or drops it.
Forms == {"exact", "spaced", "bare", "split", "dropped"}

Surface(f) ==
    CASE f = "exact"   -> Patterns[1]
      [] f = "spaced"  -> Patterns[2]
      [] f = "bare"    -> Patterns[3]
      [] f = "split"   -> Patterns[4]
      [] f = "dropped" -> <<>>

RECURSIVE CountFrom(_, _, _)
CountFrom(t, p, i) ==
    IF i > Len(t) THEN 0
    ELSE IF StartsWith(t, i, p) THEN 1 + CountFrom(t, p, i + Len(p))
    ELSE CountFrom(t, p, i + 1)

\* number of non-overlapping occurrences of p in t, left to right
Count(t, p) == CountFrom(t, p, 1)

RECURSIVE EngineFrom(_, _, _, _)
EngineFrom(t, fs, i, n) ==
    IF i > Len(t) THEN <<>>
    ELSE IF StartsWith(t, i, Marker)
         THEN Surface(fs[n]) \o EngineFrom(t, fs, i + Len(Marker), n + 1)
    ELSE <<t[i]>> \o EngineFrom(t, fs, i + 1, n)

\* compressed_result['compressed_prompt'] when the n-th marker gets shape fs[n]
EngineOutput(t, fs) == EngineFrom(t, fs, 1, 1)

FormVectors(n) ==
    {fs \in [1..n -> Forms] :
        Cardinality({i \in 1..n : fs[i] # "exact"}) <= MaxEdits}

\* ------------------------------------------------------- input documents
ProseA == <<"A">>
ProseMarker == Marker
BlockPy == Fence \o <<"p", "y", NL, BS, "n", NL>> \o Fence
BlockPlain == Fence \o <<NL, "x", NL>> \o Fence
BlockMarker == Fence \o <<NL>> \o Marker \o <<NL>> \o Fence
BlockEmpty == Fence \o <<NL>> \o Fence
OpenOnly == Fence \o <<"p", "y", NL, "a">>

\* the segments of the documents sent through the whole pipeline
Segments == {ProseA, ProseMarker, BlockPy, BlockPlain, BlockMarker}

\* the segments of the documents handed to the extractor alone
FenceSegments == Segments \cup {BlockEmpty, OpenOnly}

\* '\n'.join(segs)
RECURSIVE Join(_)
Join(segs) ==
    IF Len(segs) = 0 THEN <<>>
    ELSE IF Len(segs) = 1 THEN segs[1]
    ELSE segs[1] \o <<NL>> \o Join(Tail(segs))

DocsOf(segs, max) == {Join(s) : s \in UNION {[1..n -> segs] : n \in 0..max}}

\* prose, a tagged block, prose, an untagged block, prose
Scenario == Join(<<ProseA, BlockPy, ProseA, BlockPlain, ProseA>>)

Docs == DocsOf(Segments, MaxSegs) \cup {Scenario}

FenceDocs == DocsOf(FenceSegments, MaxFenceSegs)

\* ------------------------------------------------------------ the state
\* pc               the stage of main / compress_prompt that runs next
\* input_file       the input path: <<>> if it does not exist, else <<content>>
\* preserve_code    the preserve_code argument (--no-preserve-code clears it)
\* original_prompt, text_to_compress, code_blocks
\*                  the locals of compress_prompt with these names
\* forms            what the engine did to each marker of text_to_compress
\* compressed_text  compressed_result['compressed_prompt'], as returned
\* result, idx      the local result of reinsert_code_blocks and the position
\*                  of its loop in code_blocks
\* appended         how often the fallback branch (append at the end) ran
\* last_end         index just after the text put in by the latest re.sub
\* output_file      the output path: <<>> if not written, else <<content>>
\* stats            the dictionary returned by compress_prompt
\* exit_status      the exit status of the process, -1 while it runs
VARIABLES pc, input_file, preserve_code, original_prompt, text_to_compress,
          code_blocks, forms, compressed_text, result, idx, appended,
          last_end, output_file, stats, exit_status

vars == <<pc, input_file, preserve_code, original_prompt, text_to_compress,
          code_blocks, forms, compressed_text, result, idx, appended,
          last_end, output_file, stats, exit_status>>

NoStats == [original_length |-> 0, compressed_length |-> 0,
            code_blocks_preserved |-> 0]

\* The input file is absent (<<>>) or holds a document (<<doc>>); the output
\* file does not exist yet.
InitWith(docs) ==
    /\ pc = "main"
    /\ input_file \in {<<>>} \cup {<<d>> : d \in docs}
    /\ preserve_code \in BOOLEAN
    /\ original_prompt = <<>>
    /\ text_to_compress = <<>>
    /\ code_blocks = <<>>
    /\ forms = <<>>
    /\ compressed_text = <<>>
    /\ result = <<>>
    /\ idx = 1
    /\ appended = 0
    /\ last_end = 0
    /\ output_file = <<>>
    /\ stats = NoStats
    /\ exit_status = -1

Init == InitWith(Docs)

InitExtract == InitWith(FenceDocs)

\* main: the input file must exist
CheckInput ==
    /\ pc = "main"
    /\ IF input_file = <<>>
       THEN pc' = "exit" /\ exit_status' = 1
       ELSE pc' = "read" /\ exit_status' = exit_status
    /\ UNCHANGED <<input_file, preserve_code, original_prompt,
                   text_to_compress, code_blocks, forms, compressed_text,
                   result, idx, appended, last_end, output_file, stats>>

\* compress_prompt: read the input file
ReadInput ==
    /\ pc = "read"
    /\ original_prompt' = input_file[1]
    /\ text_to_compress' = input_file[1]
    /\ pc' = "extract"
    /\ UNCHANGED <<input_file, preserve_code, code_blocks, forms,
                   compressed_text, result, idx, appended, last_end,
                   output_file, stats, exit_status>>

\* compress_prompt: extract the code blocks when preservation is enabled
Extract ==
    /\ pc = "extract"
    /\ IF preserve_code
       THEN /\ text_to_compress' = extract_code_blocks(original_prompt).text
            /\ code_blocks' = extract_code_blocks(original_prompt).blocks
       ELSE UNCHANGED <<text_to_compress, code_blocks>>
    /\ pc' = "init"
    /\ UNCHANGED <<input_file, preserve_code, original_prompt, forms,
                   compressed_text, result, idx, appended, last_end,
                   output_file, stats, exit_status>>

\* compress_prompt: construct the PromptCompressor
InitCompressor ==
    /\ pc = "init"
    /\ pc' = "compress"
    /\ UNCHANGED <<input_file, preserve_code, original_prompt,
                   text_to_compress, code_blocks, forms, compressed_text,
                   result, idx, appended, last_end, output_file, stats,
                   exit_status>>

\* compress_prompt: the engine returns the compressed text
Compress ==
    /\ pc = "compress"
    /\ \E fs \in FormVectors(Count(text_to_compress, Marker)) :
          /\ forms' = fs
          /\ compressed_text' = EngineOutput(text_to_compress, fs)
          /\ result' = EngineOutput(text_to_compress, fs)
    /\ pc' = IF preserve_code /\ code_blocks # <<>> THEN "reinsert" ELSE "write"
    /\ UNCHANGED <<input_file, preserve_code, original_prompt,
                   text_to_compress, code_blocks, idx, appended, last_end,
                   output_file, stats, exit_status>>

\* reinsert_code_blocks: one iteration of the loop over code_blocks
ReinsertStep ==
    /\ pc = "reinsert"
    /\ idx <= Len(code_blocks)
    /\ LET r == ReinsertOne(result, code_blocks[idx])
       IN  /\ result' = r.result
           /\ appended' = IF r.replaced THEN appended ELSE appended + 1
           /\ last_end' = IF r.replaced THEN r.stop ELSE last_end
    /\ idx' = idx + 1
    /\ pc' = IF idx = Len(code_blocks) THEN "write" ELSE "reinsert"
    /\ UNCHANGED <<input_file, preserve_code, original_prompt,
                   text_to_compress, code_blocks, forms, compressed_text,
                   output_file, stats, exit_status>>

\* the text handed to the engine is written instead of the final text
WriteOutputSource ==
    /\ pc = "write"
    /\ output_file' = <<text_to_compress>>
    /\ pc' = "stats"
    /\ UNCHANGED <<input_file, preserve_code, original_prompt,
                   text_to_compress, code_blocks, forms, compressed_text,
                   result, idx, appended, last_end, stats, exit_status>>

\* compress_prompt: create the parent directory and write the output file
WriteOutput ==
    /\ pc = "write"
    /\ output_file' = <<result>>
    /\ pc' = "stats"
    /\ UNCHANGED <<input_file, preserve_code, original_prompt,
                   text_to_compress, code_blocks, forms, compressed_text,
                   result, idx, appended, last_end, stats, exit_status>>

\* compress_prompt: compute the statistics that are returned to main
ComputeStats ==
    /\ pc = "stats"
    /\ stats' = [original_length |-> Len(original_prompt),
                 compressed_length |-> Len(result),
                 code_blocks_preserved |->
                     IF preserve_code THEN Len(code_blocks) ELSE 0]
    /\ pc' = "print"
    /\ UNCHANGED <<input_file, preserve_code, original_prompt,
                   text_to_compress, code_blocks, forms, compressed_text,
                   result, idx, appended, last_end, output_file, exit_status>>

\* main: print the summary; the size reduction divides by original_length
PrintSummary ==
    /\ pc = "print"
    /\ exit_status' = IF stats.original_length = 0 THEN 1 ELSE 0
    /\ pc' = "exit"
    /\ UNCHANGED <<input_file, preserve_code, original_prompt,
                   text_to_compress, code_blocks, forms, compressed_text,
                   result, idx, appended, last_end, output_file, stats>>

\* a stage raises (unreadable input, engine unavailable, engine failure,
\* output path not writable); main reports it and exits with status 1
Raise ==
    /\ pc \in {"read", "init", "compress", "write"}
    /\ pc' = "exit"
    /\ exit_status' = 1
    /\ UNCHANGED <<input_file, preserve_code, original_prompt,
                   text_to_compress, code_blocks, forms, compressed_text,
                   result, idx, appended, last_end, output_file, stats>>

Next ==
    \/ CheckInput
    \/ ReadInput
    \/ Extract
    \/ InitCompressor
    \/ Compress
    \/ ReinsertStep
    \/ WriteOutput
    \/ ComputeStats
    \/ PrintSummary
    \/ Raise

Spec == Init /\ [][Next]_vars

\* the run up to and including the extraction, over the larger set of
\* documents
NextExtract ==
    \/ CheckInput
    \/ ReadInput
    \/ Extract

SpecExtract == InitExtract /\ [][NextExtract]_vars

\* ------------------------------------------------ vocabulary of the claims
\* the loop of reinsert_code_blocks has run over every code block
Reinserted == code_blocks # <<>> /\ idx = Len(code_blocks) + 1

\* the final text is known: reinsertion is over or was skipped
Finished == pc \in {"write", "stats", "print"} \/ output_file # <<>>

Extracted == preserve_code /\ pc \notin {"main", "read", "extract"}

\* the engine left every marker as it was
Intact == \A i \in 1..Len(forms) : forms[i] = "exact"

\* number of markers the engine dropped
Dropped == Cardinality({i \in 1..Len(forms) : forms[i] = "dropped"})

\* index of the leftmost occurrence of p in t at or after i, 0 if none
FindFrom(t, p, i) ==
    LET hits == {j \in i..Len(t) : StartsWith(t, j, p)}
    IN  IF hits = {} THEN 0 ELSE CHOOSE j \in hits : \A k \in hits : j <= k

\* the blocks occur in t one after the other, without overlap
RECURSIVE InOrderFrom(_, _, _)
InOrderFrom(t, blocks, i) ==
    IF blocks = <<>> THEN TRUE
    ELSE LET pos == FindFrom(t, Head(blocks), i)
         IN  pos > 0 /\ InOrderFrom(t, Tail(blocks), pos + Len(Head(blocks)))

\* a recognised surface form starts at index i: its length, 0 if none
FormAt(t, i) ==
    LET ks == {k \in 1..Len(Patterns) : StartsWith(t, i, Patterns[k])}
    IN  IF ks = {} THEN 0 ELSE Len(Patterns[CHOOSE k \in ks : TRUE])

\* number of recognised occurrences in t, counted left to right
RECURSIVE OccurrencesFrom(_, _)
OccurrencesFrom(t, i) ==
    IF i > Len(t) THEN 0
    ELSE IF FormAt(t, i) > 0 THEN 1 + OccurrencesFrom(t, i + FormAt(t, i))
    ELSE OccurrencesFrom(t, i + 1)

\* t with its n-th recognised occurrence, counted left to right, replaced by
\* the n-th block; occurrences beyond the blocks are left alone
RECURSIVE FillFormsFrom(_, _, _)
FillFormsFrom(t, blocks, i) ==
    IF i > Len(t) THEN <<>>
    ELSE IF blocks # <<>> /\ FormAt(t, i) > 0
         THEN Head(blocks) \o FillFormsFrom(t, Tail(blocks), i + FormAt(t, i))
    ELSE <<t[i]>> \o FillFormsFrom(t, blocks, i + 1)

\* t with the n-th occurrence of the literal p replaced by reps[n]
RECURSIVE FillFrom(_, _, _, _)
FillFrom(t, p, reps, i) ==
    IF i > Len(t) THEN <<>>
    ELSE IF reps # <<>> /\ StartsWith(t, i, p)
         THEN Head(reps) \o FillFrom(t, p, Tail(reps), i + Len(p))
    ELSE <<t[i]>> \o FillFrom(t, p, reps, i + 1)

Padded(blocks) == [i \in 1..Len(blocks) |-> <<SP>> \o blocks[i] \o <<SP>>]

IsSuffix(s, t) ==
    Len(s) <= Len(t) /\ SubSeq(t, Len(t) - Len(s) + 1, Len(t)) = s

\* index of the newline that ends the line containing index i (Len(t) + 1
\* for the last line)
RECURSIVE LineEnd(_, _)
LineEnd(t, i) == IF i > Len(t) \/ t[i] = NL THEN i ELSE LineEnd(t, i + 1)

\* the line starting at i is an opening fence line: optional indentation, a
\* fence, an optional lower-case language tag
IsOpenLine(t, i) ==
    /\ StartsWith(t, SkipSpaces(t, i), Fence)
    /\ SkipTag(t, SkipSpaces(t, i) + 3) = LineEnd(t, i)

\* the line starting at i begins, after optional indentation, with a fence
IsFenceLine(t, i) == StartsWith(t, SkipSpaces(t, i), Fence)

\* Reading the fence lines of t from the line starting at i as alternately
\* opening and closing a block (open = index of the opening fence of the
\* block being read, 0 outside a block): the index of the opening fence that
\* is still open at the end of the text, 0 if there is none.
RECURSIVE OpenAtEnd(_, _, _)
OpenAtEnd(t, i, open) ==
    IF i > Len(t) THEN open
    ELSE LET next == LineEnd(t, i) + 1
         IN  IF open = 0
             THEN OpenAtEnd(t, next, IF IsOpenLine(t, i) THEN i ELSE 0)
             ELSE OpenAtEnd(t, next, IF IsFenceLine(t, i) THEN 0 ELSE open)

\* index of the opening fence of t that has no closing fence, 0 if none
UnterminatedFence(t) == OpenAtEnd(t, 1, 0)

\* fenced blocks that have their own opening and closing fence line
ClosedBlocks == {BlockPy, BlockPlain, BlockMarker, BlockEmpty}

\* ------------------------------------------------------------- the claims

\* C1: after a pass that leaves every placeholder intact, the text returned
\* by reinsert_code_blocks contains the extracted spans, each identical to
\* its extraction, one after the other in their original order, whatever
\* the span bodies and the prose contain.
C1_SpansRoundTrip ==
    (preserve_code /\ Reinserted /\ Intact)
        => InOrderFrom(result, code_blocks, 1)

\* C2: when K of the N placeholder occurrences are missing from the
\* compressed text, every span of the registry is present in the final text
\* and exactly K of them were appended at the tail.
C2_FallbackComplete ==
    (preserve_code /\ Reinserted /\ Len(forms) = Len(code_blocks))
        => /\ appended = Dropped
           /\ \A i \in 1..Len(code_blocks) : Contains(result, code_blocks[i])

\* C3: when every placeholder occurrence is in some recognised surface form
\* and none is dropped, the i-th span is substituted into the i-th
\* occurrence counted left to right (stated for documents without marker
\* text of their own).
C3_OrderUnderCorruption ==
    (/\ preserve_code
     /\ Reinserted
     /\ Dropped = 0
     /\ Len(forms) = Len(code_blocks)
     /\ ~Contains(original_prompt, Word))
        => result = FillFormsFrom(compressed_text, code_blocks, 1)

\* C4 (as stated): when the compression step returns the placeholder-bearing
\* text unchanged, reinsertion restores the original input exactly.
C4_ExactRoundTrip ==
    (preserve_code /\ Finished /\ Intact) => result = original_prompt

\* C4 (amended): when the compression step returns the placeholder-bearing
\* text unchanged and the input does not contain the marker word, the final
\* text is the input with one space added before and after each extracted
\* span.
C4_PaddedRoundTrip ==
    (preserve_code /\ Finished /\ Intact /\ ~Contains(original_prompt, Word))
        => /\ original_prompt = FillFrom(text_to_compress, Placeholder, code_blocks, 1)
           /\ result = FillFrom(text_to_compress, Placeholder, Padded(code_blocks), 1)

C4_Witness ==
    /\ exit_status = 0
    /\ preserve_code
    /\ Intact
    /\ ~Contains(original_prompt, Word)
    /\ code_blocks = <<BlockPy, BlockPlain>>
    /\ original_prompt = Scenario
    /\ output_file = <<result>>
    /\ text_to_compress = <<"A", NL>> \o Placeholder \o <<NL, "A", NL>>
                              \o Placeholder \o <<NL, "A">>
    /\ result = <<"A", NL, SP>> \o BlockPy \o <<SP, NL, "A", NL, SP>>
                              \o BlockPlain \o <<SP, NL, "A">>

\* C5: whenever the process ends with a non-zero exit status, no output file
\* has been written in that run.
C5_NoOutputOnFailure ==
    (pc = "exit" /\ exit_status # 0) => output_file = <<>>

\* C6: a document made of two sibling fenced blocks separated by prose yields
\* exactly these two blocks as spans, in order.
C6_SiblingBlocks ==
    Extracted =>
        \A b1 \in ClosedBlocks, b2 \in ClosedBlocks :
            original_prompt = Join(<<b1, ProseA, b2>>) => code_blocks = <<b1, b2>>

\* C7: an opening fence with no closing fence before the end of the text is
\* not extracted and stays in the rewritten text as prose; when no span is
\* found the rewritten text is the input.
C7_UnterminatedFence ==
    Extracted =>
        /\ UnterminatedFence(original_prompt) > 0 =>
              IsSuffix(SubSeq(original_prompt, UnterminatedFence(original_prompt),
                              Len(original_prompt)),
                       text_to_compress)
        /\ code_blocks = <<>> => text_to_compress = original_prompt

\* C8: with zero spans, or with preservation disabled, the text written as
\* final output is the raw output of the compression engine.
C8_NoSpanNoOp ==
    (output_file # <<>> /\ (~preserve_code \/ code_blocks = <<>>))
        => output_file = <<compressed_text>>

C8_Witness ==
    /\ exit_status = 0
    /\ preserve_code
    /\ code_blocks = <<>>
    /\ Contains(compressed_text, Word)
    /\ compressed_text # text_to_compress
    /\ output_file = <<compressed_text>>

\* C9: after a span has been substituted, the next span's placeholder is
\* searched from the end of that replacement, so the next substitution never
\* takes place before that point, inside or ahead of a reinserted span
\* (stated for the passes that leave every marker intact).
C9_ForwardOnly ==
    (/\ pc = "reinsert"
     /\ idx <= Len(code_blocks)
     /\ Intact
     /\ NextMatch(result) > 0)
        => NextMatch(result) >= last_end

\* C10: the text returned by extract_code_blocks holds exactly one
\* recognisable placeholder occurrence per extracted span.
C10_OnePlaceholderPerSpan ==
    Extracted => OccurrencesFrom(text_to_compress, 1) = Len(code_blocks)

====
